---- MODULE Spec2Model ----
(***************************************************************************)
(* Model of the interactive voice conversation loop of src/main.py.        *)
(*                                                                         *)
(* The program is one sequential loop (main).  Each action below is one    *)
(* step of that loop between two blocking calls: the console read, the     *)
(* microphone capture, the transcription request, the chat completion      *)
(* request and the speech synthesis request with its streaming write.      *)
(* A KeyboardInterrupt may be raised at any of these blocking points.      *)
(*                                                                         *)
(* Text is modelled as a sequence of one-character strings so that         *)
(* str.strip() and str.upper() are computed, not assumed.                  *)
(***************************************************************************)
EXTENDS Integers, Sequences, FiniteSets, TLC

(* ---- bounds ---------------------------------------------------------- *)
\* number of turns ('R' accepted) a behaviour may start
MaxTurns == 2
\* length of a console line typed at the prompt
MaxLineLen == 2

(* ---- text ------------------------------------------------------------ *)
\* characters of a console line: a lower-case and an upper-case letter, and a space
Chars == {"q", "R", " "}

RECURSIVE SeqsUpTo(_, _)
SeqsUpTo(S, n) ==
    IF n = 0 THEN {<<>>}
    ELSE LET shorter == SeqsUpTo(S, n - 1)
         IN  shorter \cup {Append(s, c) : s \in {t \in shorter : Len(t) = n - 1}, c \in S}

\* the lines the user may type at the prompt
InputLines == SeqsUpTo(Chars, MaxLineLen)

IsSpace(c) == c = " "

RECURSIVE LStrip(_)
LStrip(s) == IF s # <<>> /\ IsSpace(Head(s)) THEN LStrip(Tail(s)) ELSE s

RECURSIVE RStrip(_)
RStrip(s) ==
    IF s # <<>> /\ IsSpace(s[Len(s)]) THEN RStrip(SubSeq(s, 1, Len(s) - 1)) ELSE s

\* str.strip(): drop leading and trailing whitespace
Strip(s) == RStrip(LStrip(s))

UpperChar(c) ==
    CASE c = "q" -> "Q"
      [] c = "r" -> "R"
      [] c = "x" -> "X"
      [] OTHER   -> c

\* str.upper()
Upper(s) == [i \in 1..Len(s) |-> UpperChar(s[i])]

\* texts the transcription service may return (empty string is a valid result)
Questions == {<<>>, <<" ">>, <<"h", "i">>}

\* texts the chat completion service may return
Responses == {<<"o", "k">>, <<"n", "o">>}

\* the system prompt set in main
SystemPrompt == "You are a helpful and friendly assistant. Keep your responses concise and natural."

\* the voice main passes to ask_and_speak
Voice == "coral"

\* the instructions ask_and_speak passes to text_to_speech
Instructions == "Speak in a natural and conversational tone."

(* ---- state ----------------------------------------------------------- *)
VARIABLES
    openai_api_key,        \* TRUE iff OPENAI_API_KEY is set in the environment
    system_prompt,         \* main's local system_prompt
    conversation_history,  \* main's local conversation_history
    pc,                    \* where main is blocked
    user_input,            \* main's local user_input
    question,              \* main's local question
    messages,              \* payload of the last chat completion request
    response,              \* text returned by the last chat completion
    tts_request,           \* arguments of the last speech synthesis request (<<>> if none)
    speech_mp3,            \* contents of the file speech.mp3 (<<>> if absent)
    speech_file,           \* path returned by the last completed ask_and_speak
    error,                 \* exception caught by the last handler that ran
    stdout,                \* last line printed
    exit_code,             \* exit status once main returned (-1 while running)
    turns,                 \* number of turns started
    trace,                 \* calls, assignments and appends of the current turn, in order
    history_before,        \* conversation_history when the current turn started
    outcome,               \* how the current turn ended
    detail,                \* str(e) printed by the last handler that ran
    artifacts              \* number of times ask_and_speak returned a path

vars == <<openai_api_key, system_prompt, conversation_history, pc, user_input,
          question, messages, response, tts_request, speech_mp3, speech_file,
          error, stdout, exit_code, turns, trace, history_before, outcome,
          detail, artifacts>>

InTurn == {"Capturing", "Transcribing", "Completing", "Synthesizing"}

Range(f) == {f[i] : i \in DOMAIN f}

\* in the current turn, every occurrence of b comes after an occurrence of a
Before(a, b) ==
    \A j \in DOMAIN trace : trace[j] = b => \E i \in 1..(j - 1) : trace[i] = a

(* ---- helpers translated from the source ------------------------------ *)
Turn(role, content) == [role |-> role, content |-> content]

\* variant: an utterance already in the history is not recorded again
AppendUser_Dedup(h, q) ==
    IF \E i \in DOMAIN h : h[i] = Turn("user", q) THEN h ELSE Append(h, Turn("user", q))

\* conversation_history.append({"role": "user", "content": question})
AppendUser(h, q) == Append(h, Turn("user", q))

\* variant: the assistant message is not recorded
AppendAssistant_Skipped(h, r) == h

\* conversation_history.append({"role": "assistant", "content": response})
AppendAssistant(h, r) == Append(h, Turn("assistant", r))

\* variant: the messages list is built without the system message
BuildMessages_NoSystem(sp, q) == <<Turn("user", q)>>

\* the messages list built by ask_and_speak
BuildMessages(sp, q) == <<Turn("system", sp), Turn("user", q)>>

\* initialize_openai_client: raises ValueError when the key is missing
initialize_openai_client(key) == IF key THEN "client" ELSE "ValueError"

\* the session's Transcript: the system Turn followed by the recorded history
Transcript == <<Turn("system", system_prompt)>> \o conversation_history

(* ---- initial state --------------------------------------------------- *)
\* the state when main reaches its first input() call
Init ==
    /\ openai_api_key \in BOOLEAN
    /\ system_prompt = SystemPrompt
    /\ conversation_history = <<>>
    /\ pc = "Listening"
    /\ user_input = <<>>
    /\ question = <<>>
    /\ messages = <<>>
    /\ response = <<>>
    /\ tts_request = <<>>
    /\ speech_mp3 = <<>>
    /\ speech_file = "none"
    /\ error = "none"
    /\ stdout = "Press 'R' to start recording (5 seconds)"
    /\ exit_code = -1
    /\ turns = 0
    /\ trace = <<>>
    /\ history_before = <<>>
    /\ outcome = "none"
    /\ detail = ""
    /\ artifacts = 0

(* ---- leaving the loop ------------------------------------------------ *)
\* main returns: every way out of the loop ends in a normal return
Return(msg) ==
    /\ pc' = "Terminated"
    /\ stdout' = msg
    /\ exit_code' = 0

\* str(e): the texts an exception raised in the turn body may carry.  The
\* three service calls go through the same client and raise its errors.
str(e) ==
    CASE e = "ValueError"      -> {"OPENAI_API_KEY not found in environment variables"}
      [] e = "CaptureError"    -> {"Invalid input device"}
      [] e = "PersistenceError" -> {"No space left on device"}
      [] OTHER                 -> {"Connection error.", "Request timed out."}

\* variant: the handler reports the error and leaves the loop
Caught_Fatal(e) ==
    /\ error' = e
    /\ stdout' = "An error occurred: "
    /\ outcome' = "failed"
    /\ pc' = "Terminated"
    /\ exit_code' = 1
    /\ detail' \in str(e)

\* except Exception as e: print(...); continue   (the handler inside the loop)
Caught(e) ==
    /\ error' = e
    /\ stdout' = "An error occurred: "
    /\ outcome' = "failed"
    /\ pc' = "Listening"
    /\ exit_code' = exit_code
    /\ detail' \in str(e)

(* ---- the prompt ------------------------------------------------------ *)
\* variant: a 'Q' typed during a turn is acted upon at once
InputQuit_Anytime ==
    /\ pc # "Terminated"
    /\ \E line \in InputLines :
          /\ Upper(Strip(line)) = <<"Q">>
          /\ user_input' = Upper(Strip(line))
    /\ Return("Goodbye!")
    /\ UNCHANGED <<detail, artifacts, openai_api_key, system_prompt,
                   conversation_history, question, messages, response,
                   tts_request, speech_mp3, speech_file, error, turns, trace,
                   history_before, outcome>>

\* input(...).strip().upper() == 'Q': print Goodbye and break
InputQuit ==
    /\ pc = "Listening"
    /\ \E line \in InputLines :
          /\ Upper(Strip(line)) = <<"Q">>
          /\ user_input' = Upper(Strip(line))
    /\ Return("Goodbye!")
    /\ UNCHANGED <<detail, artifacts, openai_api_key, system_prompt, conversation_history, question,
                   messages, response, tts_request, speech_mp3, speech_file,
                   error, turns, trace, history_before, outcome>>

\* neither 'Q' nor 'R': continue
InputOther ==
    /\ pc = "Listening"
    /\ \E line \in InputLines :
          /\ Upper(Strip(line)) \notin {<<"Q">>, <<"R">>}
          /\ user_input' = Upper(Strip(line))
    /\ UNCHANGED <<detail, artifacts, openai_api_key, system_prompt, conversation_history, pc, question,
                   messages, response, tts_request, speech_mp3, speech_file,
                   error, stdout, exit_code, turns, trace, history_before, outcome>>

\* 'R': enter the inner try and call record_audio
InputRecord ==
    /\ pc = "Listening"
    /\ turns < MaxTurns
    /\ \E line \in InputLines :
          /\ Upper(Strip(line)) = <<"R">>
          /\ user_input' = Upper(Strip(line))
    /\ pc' = "Capturing"
    /\ stdout' = "Recording for 5 seconds..."
    /\ turns' = turns + 1
    /\ trace' = <<"record_audio">>
    /\ history_before' = conversation_history
    /\ outcome' = "running"
    /\ UNCHANGED <<detail, artifacts, openai_api_key, system_prompt, conversation_history, question,
                   messages, response, tts_request, speech_mp3, speech_file,
                   error, exit_code>>

\* input() raises EOFError: caught by the handler outside the loop
InputEOF ==
    /\ pc = "Listening"
    /\ error' = "EOFError"
    /\ Return("An unexpected error occurred: ")
    /\ UNCHANGED <<detail, artifacts, openai_api_key, system_prompt, conversation_history, user_input,
                   question, messages, response, tts_request, speech_mp3,
                   speech_file, turns, trace, history_before, outcome>>

(* ---- capture --------------------------------------------------------- *)
\* record_audio returns the path of input.wav; main calls speech_to_text
RecordAudioOk ==
    /\ pc = "Capturing"
    /\ pc' = "Transcribing"
    /\ stdout' = "Transcribing audio..."
    /\ trace' = Append(trace, "speech_to_text")
    /\ UNCHANGED <<detail, artifacts, openai_api_key, system_prompt, conversation_history, user_input,
                   question, messages, response, tts_request, speech_mp3,
                   speech_file, error, exit_code, turns, history_before, outcome>>

\* variant: a failed capture is reported and the turn goes on to transcription
RecordAudioFail_GoesOn ==
    /\ pc = "Capturing"
    /\ error' = "CaptureError"
    /\ detail' \in str("CaptureError")
    /\ stdout' = "An error occurred: "
    /\ pc' = "Transcribing"
    /\ trace' = Append(trace, "speech_to_text")
    /\ UNCHANGED <<artifacts, openai_api_key, system_prompt, conversation_history,
                   user_input, question, messages, response, tts_request,
                   speech_mp3, speech_file, exit_code, turns, history_before,
                   outcome>>

\* record_audio raises (device unavailable, read error, write error)
RecordAudioFail ==
    /\ pc = "Capturing"
    /\ Caught("CaptureError")
    /\ UNCHANGED <<artifacts, openai_api_key, system_prompt, conversation_history, user_input,
                   question, messages, response, tts_request, speech_mp3,
                   speech_file, turns, trace, history_before>>

(* ---- transcription --------------------------------------------------- *)
\* speech_to_text returns text; main appends the user message and calls
\* ask_and_speak, which builds messages and calls chat_completion
SpeechToTextOk ==
    /\ pc = "Transcribing"
    /\ initialize_openai_client(openai_api_key) = "client"
    /\ \E q \in Questions :
          /\ question' = q
          /\ conversation_history' = AppendUser(conversation_history, q)
          /\ messages' = BuildMessages(system_prompt, q)
    /\ pc' = "Completing"
    /\ stdout' = "Getting AI response..."
    /\ trace' = trace \o <<"question", "append_user", "chat_completion">>
    /\ UNCHANGED <<detail, artifacts, openai_api_key, system_prompt, user_input, response, tts_request,
                   speech_mp3, speech_file, error, exit_code, turns, history_before,
                   outcome>>

\* variant: a failed transcription is reported and the capture is made again
SpeechToTextFail_Retries ==
    /\ pc = "Transcribing"
    /\ error' = "TranscriptionError"
    /\ detail' \in str("TranscriptionError")
    /\ stdout' = "An error occurred: "
    /\ pc' = "Capturing"
    /\ trace' = <<"record_audio">>
    /\ UNCHANGED <<artifacts, openai_api_key, system_prompt, conversation_history,
                   user_input, question, messages, response, tts_request,
                   speech_mp3, speech_file, exit_code, turns, history_before,
                   outcome>>

\* speech_to_text raises: ValueError without a key, else a service error
SpeechToTextFail ==
    /\ pc = "Transcribing"
    /\ IF initialize_openai_client(openai_api_key) = "ValueError"
       THEN Caught("ValueError")
       ELSE Caught("TranscriptionError")
    /\ UNCHANGED <<artifacts, openai_api_key, system_prompt, conversation_history, user_input,
                   question, messages, response, tts_request, speech_mp3,
                   speech_file, turns, trace, history_before>>

(* ---- completion ------------------------------------------------------ *)
\* variant: the text sent to synthesis is the one held before this completion
ChatCompletionOk_StaleText ==
    /\ pc = "Completing"
    /\ initialize_openai_client(openai_api_key) = "client"
    /\ \E r \in Responses :
          /\ response' = r
          /\ tts_request' = <<[text |-> response, voice |-> Voice,
                               instructions |-> Instructions]>>
    /\ pc' = "Synthesizing"
    /\ stdout' = "AI Response: "
    /\ trace' = trace \o <<"response", "text_to_speech">>
    /\ UNCHANGED <<detail, artifacts, openai_api_key, system_prompt,
                   conversation_history, user_input, question, messages,
                   speech_mp3, speech_file, error, exit_code, turns,
                   history_before, outcome>>

\* chat_completion returns; ask_and_speak prints it and calls text_to_speech
ChatCompletionOk ==
    /\ pc = "Completing"
    /\ initialize_openai_client(openai_api_key) = "client"
    /\ \E r \in Responses :
          /\ response' = r
          /\ tts_request' = <<[text |-> r, voice |-> Voice, instructions |-> Instructions]>>
    /\ pc' = "Synthesizing"
    /\ stdout' = "AI Response: "
    /\ trace' = trace \o <<"response", "text_to_speech">>
    /\ UNCHANGED <<detail, artifacts, openai_api_key, system_prompt, conversation_history, user_input,
                   question, messages, speech_mp3, speech_file, error, exit_code,
                   turns, history_before, outcome>>

\* variant: a failed completion also takes the user message back
ChatCompletionFail_RollsBack ==
    /\ pc = "Completing"
    /\ Caught("CompletionError")
    /\ conversation_history' = history_before
    /\ UNCHANGED <<artifacts, openai_api_key, system_prompt, user_input, question, messages,
                   response, tts_request, speech_mp3, speech_file, turns, trace,
                   history_before>>

\* chat_completion raises; the exception leaves ask_and_speak and is caught in main
ChatCompletionFail ==
    /\ pc = "Completing"
    /\ IF initialize_openai_client(openai_api_key) = "ValueError"
       THEN Caught("ValueError")
       ELSE Caught("CompletionError")
    /\ UNCHANGED <<artifacts, openai_api_key, system_prompt, conversation_history, user_input,
                   question, messages, response, tts_request, speech_mp3,
                   speech_file, turns, trace, history_before>>

(* ---- synthesis and persistence --------------------------------------- *)
\* a file holding the audio of a text, whole or cut short
Audio(text, complete) == <<[text |-> text, complete |-> complete]>>

\* variant: the assistant message is recorded twice
TextToSpeechOk_AppendsTwice ==
    /\ pc = "Synthesizing"
    /\ initialize_openai_client(openai_api_key) = "client"
    /\ speech_mp3' = Audio(tts_request[1].text, TRUE)
    /\ speech_file' = "speech.mp3"
    /\ conversation_history' =
          AppendAssistant(AppendAssistant(conversation_history, response), response)
    /\ pc' = "Listening"
    /\ stdout' = "You can play this file to hear the response."
    /\ trace' = trace \o <<"speech_file", "append_assistant">>
    /\ outcome' = "ok"
    /\ artifacts' = artifacts + 1
    /\ UNCHANGED <<detail, openai_api_key, system_prompt, user_input, question,
                   messages, response, tts_request, error, exit_code, turns,
                   history_before>>

\* text_to_speech streams the whole audio to speech.mp3 and returns its path;
\* ask_and_speak returns (response, speech_file); main appends the assistant message
TextToSpeechOk ==
    /\ pc = "Synthesizing"
    /\ initialize_openai_client(openai_api_key) = "client"
    /\ speech_mp3' = Audio(tts_request[1].text, TRUE)
    /\ speech_file' = "speech.mp3"
    /\ conversation_history' = AppendAssistant(conversation_history, response)
    /\ pc' = "Listening"
    /\ stdout' = "You can play this file to hear the response."
    /\ trace' = trace \o <<"speech_file", "append_assistant">>
    /\ outcome' = "ok"
    /\ artifacts' = artifacts + 1
    /\ UNCHANGED <<detail, openai_api_key, system_prompt, user_input, question, messages,
                   response, tts_request, error, exit_code, turns, history_before>>

\* variant: the assistant message is recorded although synthesis failed
TextToSpeechFail_Records ==
    /\ pc = "Synthesizing"
    /\ Caught("SynthesisError")
    /\ conversation_history' = AppendAssistant(conversation_history, response)
    /\ UNCHANGED <<artifacts, openai_api_key, system_prompt, user_input, question,
                   messages, response, tts_request, speech_mp3, speech_file,
                   turns, trace, history_before>>

\* the synthesis request raises before anything is written
TextToSpeechFail ==
    /\ pc = "Synthesizing"
    /\ IF initialize_openai_client(openai_api_key) = "ValueError"
       THEN Caught("ValueError")
       ELSE Caught("SynthesisError")
    /\ UNCHANGED <<artifacts, openai_api_key, system_prompt, conversation_history, user_input,
                   question, messages, response, tts_request, speech_mp3,
                   speech_file, turns, trace, history_before>>

\* response.stream_to_file raises after the file was opened for writing
StreamToFileFail ==
    /\ pc = "Synthesizing"
    /\ initialize_openai_client(openai_api_key) = "client"
    /\ speech_mp3' = Audio(tts_request[1].text, FALSE)
    /\ Caught("PersistenceError")
    /\ UNCHANGED <<artifacts, openai_api_key, system_prompt, conversation_history, user_input,
                   question, messages, response, tts_request, speech_file, turns,
                   trace, history_before>>

(* ---- interrupt ------------------------------------------------------- *)
\* variant: an interrupt during synthesis is held back until the turn is recorded
KeyboardInterrupt_Queued ==
    /\ pc # "Terminated"
    /\ Return("Goodbye!")
    /\ outcome' = IF pc \in InTurn THEN "interrupted" ELSE outcome
    /\ speech_mp3' = IF pc = "Synthesizing" THEN Audio(tts_request[1].text, TRUE)
                                            ELSE speech_mp3
    /\ conversation_history' = IF pc = "Synthesizing"
                               THEN AppendAssistant(conversation_history, response)
                               ELSE conversation_history
    /\ UNCHANGED <<detail, artifacts, openai_api_key, system_prompt, user_input, question, messages,
                   response, tts_request, speech_file, error, turns, trace,
                   history_before>>

\* KeyboardInterrupt raised at a blocking point: not an Exception, so the
\* handler inside the loop does not catch it; the handler outside the loop does
KeyboardInterrupt ==
    /\ pc # "Terminated"
    /\ Return("Goodbye!")
    /\ outcome' = IF pc \in InTurn THEN "interrupted" ELSE outcome
    /\ speech_mp3' \in IF pc = "Synthesizing"
                       THEN {speech_mp3, Audio(tts_request[1].text, FALSE)}
                       ELSE {speech_mp3}
    /\ UNCHANGED <<detail, artifacts, openai_api_key, system_prompt, conversation_history, user_input,
                   question, messages, response, tts_request, speech_file, error,
                   turns, trace, history_before>>

(* ---- specification --------------------------------------------------- *)
Next ==
    \/ InputQuit
    \/ InputOther
    \/ InputRecord
    \/ InputEOF
    \/ RecordAudioOk
    \/ RecordAudioFail
    \/ SpeechToTextOk
    \/ SpeechToTextFail
    \/ ChatCompletionOk
    \/ ChatCompletionFail
    \/ TextToSpeechOk
    \/ TextToSpeechFail
    \/ StreamToFileFail
    \/ KeyboardInterrupt

Spec == Init /\ [][Next]_vars

\* the loop when no interrupt arrives
LiveNext ==
    \/ InputQuit
    \/ InputOther
    \/ InputRecord
    \/ InputEOF
    \/ RecordAudioOk
    \/ RecordAudioFail
    \/ SpeechToTextOk
    \/ SpeechToTextFail
    \/ ChatCompletionOk
    \/ ChatCompletionFail
    \/ TextToSpeechOk
    \/ TextToSpeechFail
    \/ StreamToFileFail

\* every blocking call of the turn body eventually returns or raises; the
\* prompt may wait for ever
LiveSpec ==
    /\ Init
    /\ [][LiveNext]_vars
    /\ WF_vars(RecordAudioOk \/ RecordAudioFail)
    /\ WF_vars(SpeechToTextOk \/ SpeechToTextFail)
    /\ WF_vars(ChatCompletionOk \/ ChatCompletionFail)
    /\ WF_vars(TextToSpeechOk \/ TextToSpeechFail \/ StreamToFileFail)

TypeOK ==
    /\ openai_api_key \in BOOLEAN
    /\ pc \in InTurn \cup {"Listening", "Terminated"}
    /\ turns \in 0..MaxTurns
    /\ exit_code \in {-1, 0}
    /\ outcome \in {"none", "running", "ok", "failed", "interrupted"}

(* ---- properties ------------------------------------------------------ *)

\* C1: after a turn in which capture, transcription, completion, synthesis and
\* the write of the audio all succeeded, the history is the history the turn
\* started with, followed by the user Turn carrying the transcribed question
\* and then the assistant Turn carrying the completion: two more Turns.
C1_SuccessfulTurnAppendsUserThenAssistant ==
    outcome = "ok" =>
        /\ conversation_history =
              history_before \o <<Turn("user", question), Turn("assistant", response)>>
        /\ Len(Transcript) = 1 + Len(history_before) + 2

\* a second successful turn has just been recorded
C1_Witness ==
    /\ outcome = "ok"
    /\ pc = "Listening"
    /\ Len(conversation_history) = 4

\* C2: when the synthesis request fails after the completion succeeded, the
\* Transcript has grown by two Turns in that turn (user and assistant), no
\* artifact was returned and the failure was reported.
C2_SynthesisFailureKeepsBothTurns ==
    (outcome = "failed" /\ error = "SynthesisError") =>
        /\ conversation_history =
              history_before \o <<Turn("user", question), Turn("assistant", response)>>
        /\ "speech_file" \notin Range(trace)
        /\ stdout = "An error occurred: "

\* C3: when the completion request fails, the handler leaves the history as
\* the history the turn started with plus the user Turn only; text_to_speech
\* was not called in the turn and no artifact was written or returned.
C3_CompletionFailureKeepsUserOnly ==
    [][(pc = "Completing" /\ pc' = "Listening") =>
          /\ outcome' = "failed"
          /\ conversation_history' = Append(history_before, Turn("user", question))
          /\ "text_to_speech" \notin Range(trace')
          /\ "append_assistant" \notin Range(trace')
          /\ UNCHANGED <<speech_mp3, speech_file, tts_request>>]_vars

\* a turn has just failed at the completion step, with only its user Turn recorded
C3_Witness ==
    /\ outcome = "failed"
    /\ error = "CompletionError"
    /\ pc = "Listening"
    /\ conversation_history = Append(history_before, Turn("user", question))

\* C4: while a completion request is in flight, its payload is the whole
\* Transcript: the system Turn, every Turn recorded by earlier turns, and the
\* current user Turn last.
\* (stated for histories whose user Turns are all non-blank)
C4_PayloadIsFullTranscript ==
    (/\ pc = "Completing"
     /\ \A i \in DOMAIN conversation_history :
           Strip(conversation_history[i].content) # <<>>) =>
        messages = Transcript

\* C5: the system prompt is never changed; the Transcript starts with the one
\* system Turn carrying it and has no other system Turn; the same holds of
\* every completion payload.
C5_SingleLeadingSystemTurn ==
    /\ system_prompt = SystemPrompt
    /\ Transcript[1] = Turn("system", SystemPrompt)
    /\ \A i \in 2..Len(Transcript) : Transcript[i].role # "system"
    /\ \A i \in 1..Len(conversation_history) :
          conversation_history[i].role \in {"user", "assistant"}
    /\ messages # <<>> =>
          /\ messages[1] = Turn("system", SystemPrompt)
          /\ \A i \in 2..Len(messages) : messages[i].role # "system"

\* a successful turn and a failed turn have both been recorded and sent
C5_Witness ==
    /\ Len(conversation_history) = 3
    /\ outcome = "failed"
    /\ messages # <<>>

\* C6: in a turn whose transcription came back empty or whitespace-only, the
\* history is unchanged, neither chat_completion nor text_to_speech is called
\* and the loop is back at the prompt.
C6_BlankTranscriptionIsNoOp ==
    ("question" \in Range(trace) /\ Strip(question) = <<>>) =>
        /\ conversation_history = history_before
        /\ "chat_completion" \notin Range(trace)
        /\ "text_to_speech" \notin Range(trace)
        /\ pc = "Listening"

\* C7: within a turn, chat_completion is called only after the user Turn was
\* appended, text_to_speech only after the assistant Turn was appended, and
\* the calls come in the order speech_to_text, chat_completion, text_to_speech.
C7_AppendsPrecedeCalls ==
    /\ Before("append_user", "chat_completion")
    /\ Before("append_assistant", "text_to_speech")
    /\ Before("speech_to_text", "chat_completion")
    /\ Before("chat_completion", "text_to_speech")

\* C8: a failure of capture, transcription, completion, synthesis or the audio
\* write never ends the loop: the step that handles it goes back to the
\* prompt with the process still running.
C8_TurnFailureReturnsToPrompt ==
    [][(pc \in InTurn /\ outcome' = "failed") =>
          /\ pc' = "Listening"
          /\ exit_code' = -1
          /\ error' \in {"CaptureError", "TranscriptionError", "ValueError",
                         "CompletionError", "SynthesisError", "PersistenceError"}]_vars

\* after a turn failed at synthesis, a further turn has succeeded
C8_Witness ==
    /\ error = "SynthesisError"
    /\ outcome = "ok"
    /\ pc = "Listening"

C10_MissingCredentialIsFatal ==
    ~openai_api_key =>
        /\ trace = <<>>
        /\ conversation_history = <<>>
        /\ error # "ValueError"
        /\ turns > 0 => exit_code > 0

(* ---- helpers of the properties below --------------------------------- *)
IsPrefix(a, b) == Len(a) <= Len(b) /\ a = SubSeq(b, 1, Len(a))

\* number of occurrences of x in the sequence f
Count(f, x) == Cardinality({i \in DOMAIN f : f[i] = x})

\* number of assistant Turns in the history h
Assistants(h) == Cardinality({i \in DOMAIN h : h[i].role = "assistant"})

\* the call of the turn body that was made last in the current turn
LastCall == trace[Len(trace)]

Steps == {"record_audio", "speech_to_text", "chat_completion", "text_to_speech"}

\* the texts the handler may print after a failure of the given call (the
\* key does not change during a run, so only speech_to_text, the first call
\* that needs it, ever raises the ValueError)
Printable(step) ==
    CASE step = "record_audio"    -> str("CaptureError")
      [] step = "speech_to_text"  -> str("ValueError") \cup str("TranscriptionError")
      [] step = "chat_completion" -> str("CompletionError")
      [] step = "text_to_speech"  -> str("SynthesisError") \cup str("PersistenceError")

\* C11: when record_audio fails, the handler reports it and goes back to the
\* prompt; speech_to_text, chat_completion and text_to_speech are not called
\* in that turn and the history is unchanged.
C11_CaptureFailureSkipsTurn ==
    [][(pc = "Capturing" /\ stdout' = "An error occurred: ") =>
          /\ pc' = "Listening"
          /\ outcome' = "failed"
          /\ error' = "CaptureError"
          /\ trace' = <<"record_audio">>
          /\ conversation_history' = history_before
          /\ UNCHANGED <<conversation_history, messages, tts_request, speech_mp3>>]_vars

\* a capture has just failed in a session that already holds recorded Turns
C11_Witness ==
    /\ outcome = "failed"
    /\ error = "CaptureError"
    /\ pc = "Listening"
    /\ Len(conversation_history) = 2

\* C12: 'Q' ends the loop only from the prompt and without starting a turn;
\* once main has returned nothing changes any more.
C12_QuitFromPromptTerminatedAbsorbing ==
    [][/\ pc = "Terminated" => UNCHANGED vars
       /\ (pc # "Terminated" /\ pc' = "Terminated" /\ user_input' = <<"Q">>) =>
             /\ pc = "Listening"
             /\ exit_code' = 0
             /\ UNCHANGED <<conversation_history, turns, trace, messages,
                            tts_request, speech_mp3, outcome>>]_vars

\* the loop was left by 'Q' after a completed turn
C12_Witness ==
    /\ pc = "Terminated"
    /\ user_input = <<"Q">>
    /\ outcome = "ok"

\* C13: when a failed turn is back at the prompt, a notification was printed
\* and its text tells which call failed: no failure of another call could
\* have printed the same text.
C13_NotificationNamesFailedStep ==
    (outcome = "failed" /\ pc = "Listening") =>
        /\ stdout = "An error occurred: "
        /\ \A s \in Steps \ {LastCall} : detail \notin Printable(s)

\* C14: every assistant Turn directly follows a user Turn (so at most one
\* assistant Turn lies between two user Turns), and while a completion or a
\* synthesis is awaited the history holds exactly one Turn of the turn in
\* flight: its user Turn.
C14_OneTurnInFlight ==
    /\ \A i \in DOMAIN conversation_history :
          conversation_history[i].role = "assistant" =>
              i > 1 /\ conversation_history[i - 1].role = "user"
    /\ pc \in {"Completing", "Synthesizing"} =>
          conversation_history = Append(history_before, Turn("user", question))
    /\ pc \in {"Capturing", "Transcribing"} => conversation_history = history_before
    /\ Count(trace, "append_user") <= 1
    /\ Count(trace, "append_assistant") <= 1

\* a failed turn (user Turn only) is followed by a successful one
C14_Witness ==
    /\ Len(conversation_history) = 3
    /\ conversation_history[2].role = "user"
    /\ conversation_history[3].role = "assistant"

\* C15: every step leaves the old history as a prefix of the new one; every
\* transcribed utterance, also one already in the history, appends its own
\* user Turn and starts exactly one completion request of its own.
C15_AppendOnlyNoDedup ==
    [][/\ IsPrefix(conversation_history, conversation_history')
       /\ (pc = "Transcribing" /\ pc' = "Completing") =>
             /\ conversation_history' =
                   Append(conversation_history, Turn("user", question'))
             /\ messages'[Len(messages')] = Turn("user", question')
             /\ Count(trace', "chat_completion") = 1]_vars

\* two turns with the same utterance have each recorded their user Turn
C15_Witness ==
    /\ Len(conversation_history) = 4
    /\ conversation_history[1] = conversation_history[3]
    /\ conversation_history[1].content = <<"h", "i">>
    /\ conversation_history[2] # conversation_history[4]

\* C16: the text of a synthesis request is the completion of the same turn,
\* its voice and instructions are the configured ones, and the assistant
\* Turn recorded by a successful turn carries that same text.
C16_SynthesisGetsResponse ==
    /\ tts_request # <<>> =>
          /\ tts_request[1].voice = Voice
          /\ tts_request[1].instructions = Instructions
    /\ "text_to_speech" \in Range(trace) =>
          tts_request[1].text = response
    /\ outcome = "ok" =>
          conversation_history[Len(conversation_history)] =
              Turn("assistant", tts_request[1].text)

\* a second synthesis was requested with a text other than the first turn's
C16_Witness ==
    /\ pc = "Synthesizing"
    /\ Len(conversation_history) = 3
    /\ conversation_history[2].content # response

\* C18: at the prompt, the history holds as many assistant Turns as
\* ask_and_speak has returned paths; the last turn recorded an assistant Turn
\* if and only if it returned a path.
C18_AssistantIffArtifact ==
    pc = "Listening" =>
        /\ Assistants(conversation_history) = artifacts
        /\ ("append_assistant" \in Range(trace)) <=> ("speech_file" \in Range(trace))
        /\ outcome = "failed" =>
              Assistants(conversation_history) = Assistants(history_before)

\* a synthesis failed after an earlier turn had returned a path
C18_Witness ==
    /\ pc = "Listening"
    /\ outcome = "failed"
    /\ error = "SynthesisError"
    /\ artifacts = 1

\* C19: at the prompt, a speech.mp3 that was written holds the whole audio of
\* the last assistant Turn of the history.
C19_FileHoldsLastAssistantAudio ==
    (pc = "Listening" /\ speech_mp3 # <<>>) =>
        /\ speech_mp3[1].complete
        /\ Assistants(conversation_history) > 0
        /\ \E i \in DOMAIN conversation_history :
              /\ conversation_history[i] = Turn("assistant", speech_mp3[1].text)
              /\ \A j \in (i + 1)..Len(conversation_history) :
                    conversation_history[j].role # "assistant"

\* C17: when every call of the turn body eventually returns or raises and no
\* interrupt arrives, a turn that was started always comes back to the prompt.
C17_StartedTurnReturnsToPrompt ==
    (pc \in InTurn) ~> (pc = "Listening")

\* a second turn has come back to the prompt after failing
C17_Witness ==
    /\ pc = "Listening"
    /\ turns = 2
    /\ outcome = "failed"
    /\ error = "PersistenceError"

====
